---- MODULE Spec2Model ----
(***************************************************************************)
(* Verification model of the PerfDashboarding request layer:               *)
(*   - the in-memory TTL cache and the cachedFetch wrapper (utils/cache),  *)
(*   - the Bugzilla domain queries and the dashboard's refresh handlers,   *)
(*   - the STMO Redash POST-then-poll client (services/redashService).     *)
(* Each part has its own specification over the shared variables:          *)
(*   SpecStore (the cache API on two keys), SpecFetch (cachedFetch with    *)
(*   concurrent callers), SpecRefresh (the dashboard's loads and manual    *)
(*   refreshes over the cache), SpecPoll (the poll client).                *)
(***************************************************************************)
EXTENDS Integers, Sequences, FiniteSets, TLC

VARIABLES
    now,        \* Date.now(), in milliseconds
    ticks,      \* how many times the clock has advanced (bounds the model)
    cache,      \* the module-level Map of utils/cache: key -> {data, expiry, cachedAt}
    calls,      \* the cachedFetch invocations suspended at `await fetchFunction()`
    last,       \* history: what the most recent operation saw and returned
    pollPc,     \* where fetchBenchmarkRows stands: idle, loop, fetching, sleeping, done
    attempt,    \* the loop variable `attempt`
    sent,       \* history: the max_age of every request body POSTed, in order
    delays,     \* history: how many sleep(POLL_INTERVAL_MS) were started
    history,    \* history: the backend's answers, in order
    outcome,    \* how fetchBenchmarkRows ended: the rows returned or the error thrown
    activeView,             \* Dashboard state: the tab shown
    perfImpactLevel,        \* Dashboard state: the impact level selected
    perfPrioritySubsection, \* Dashboard state: the subsection of the priority tab
    priorityBugIds,         \* Dashboard state: the tracked bug ids, in insertion order
    perfImpactBugs,         \* Dashboard state: the perf-impact bugs shown
    perfImpactLoading,      \* Dashboard state
    priorityBugs,           \* Dashboard state: the priority bugs shown
    priorityBugsLoading,    \* Dashboard state
    tasks,      \* the dashboard's loads and refreshes suspended at their await
    bugzilla,   \* the revision of the data Bugzilla serves
    stale,      \* history: the keys whose cache entry is older than a refresh of its query
    built,      \* history: the latest generateCacheKey call, its arguments and its result
    overviewPerfCounts,     \* Dashboard state: the counts of the overview chart
    overview,   \* the runs of loadOverviewPerfCounts and their three fetches
    priorityBugTags,        \* Dashboard state: the tags of each tracked bug
    asked,      \* history: the latest domain query call, its request and its cache key
    superseded, \* history: the cachedFetch calls in flight since before an invalidate of their key
    tainted     \* history: the keys whose entry was stored by such a call

cacheVars == <<now, ticks, cache, calls, last>>
pollVars == <<pollPc, attempt, sent, delays, history, outcome>>
dashVars == <<activeView, perfImpactLevel, perfPrioritySubsection, priorityBugIds,
              perfImpactBugs, perfImpactLoading, priorityBugs, priorityBugsLoading,
              tasks, bugzilla, stale>>
keyVars == <<built>>
homeVars == <<overviewPerfCounts, overview, priorityBugTags, asked, superseded, tainted>>
vars == <<cacheVars, pollVars, dashVars, keyVars, homeVars>>

-----------------------------------------------------------------------------
(* Bounds of the model *)

MaxTicks == 2
MaxCalls == 2

\* how many times the data served by Bugzilla changes
MaxRevisions == 1

\* how many properties a params object given to generateCacheKey has
MaxParams == 3

-----------------------------------------------------------------------------
(* JavaScript values *)

\* the JS value null: what getCached returns for "no usable entry"
null == "null"

\* opaque payloads a producer can resolve with; a producer may resolve with null
Values == {"A", "B", null}

\* const CACHE_TTL = 5 * 60 * 1000
CACHE_TTL == 5 * 60 * 1000

\* the optional ttl argument: <<>> when the caller omits it, <<t>> when given
TtlArgs == {<<>>, <<1>>}

\* `ttl = CACHE_TTL` default parameter of setCache and cachedFetch
defaultTtl(ttlArg) == IF Len(ttlArg) = 0 THEN CACHE_TTL ELSE ttlArg[1]

\* keys used by direct callers of the cache API
Keys == {"k", "j"}

\* the key the concurrent cachedFetch callers contend on
FetchKeys == {"k"}

\* how far the clock can move in one step
Jumps == {1, CACHE_TTL}

-----------------------------------------------------------------------------
(* The Map *)

\* new Map()
EmptyMap == [k \in {} |-> null]

\* Map.prototype.has
MapHas(m, key) == key \in DOMAIN m

\* Map.prototype.set
MapSet(m, key, entry) == [k \in DOMAIN m \cup {key} |-> IF k = key THEN entry ELSE m[k]]

\* Map.prototype.delete
MapDelete(m, key) == [k \in DOMAIN m \ {key} |-> m[k]]

-----------------------------------------------------------------------------
(* utils/cache *)

\* a getCached that reports an expired entry absent but leaves it in the Map
getCached_keepsExpired(c, key, t) ==
    IF ~MapHas(c, key) THEN [ret |-> null, cache |-> c]
    ELSE IF t > c[key].expiry THEN [ret |-> null, cache |-> c]
    ELSE [ret |-> c[key].data, cache |-> c]

\* a getCached that takes an entry for expired from now = expiry on
getCached_expiresEarly(c, key, t) ==
    IF ~MapHas(c, key) THEN [ret |-> null, cache |-> c]
    ELSE IF t >= c[key].expiry THEN [ret |-> null, cache |-> MapDelete(c, key)]
    ELSE [ret |-> c[key].data, cache |-> c]

\* getCached(key) at clock reading t: the value returned and the Map afterwards
getCached(c, key, t) ==
    IF ~MapHas(c, key) THEN [ret |-> null, cache |-> c]
    ELSE IF t > c[key].expiry THEN [ret |-> null, cache |-> MapDelete(c, key)]
    ELSE [ret |-> c[key].data, cache |-> c]

\* a setCache that keeps the expiry of the entry it overwrites
setCache_keepsExpiry(c, key, data, ttl, t1, t2) ==
    MapSet(c, key, [data |-> data,
                    expiry |-> IF MapHas(c, key) THEN c[key].expiry ELSE t1 + ttl,
                    cachedAt |-> t2])

\* a setCache that ignores its ttl argument
setCache_ignoresTtl(c, key, data, ttl, t1, t2) ==
    MapSet(c, key, [data |-> data, expiry |-> t1 + CACHE_TTL, cachedAt |-> t2])

\* setCache(key, data, ttl): t1 and t2 are its two Date.now() readings, in order
setCache(c, key, data, ttl, t1, t2) ==
    MapSet(c, key, [data |-> data, expiry |-> t1 + ttl, cachedAt |-> t2])

\* clearCache(key)
\* a clearCache that removes nothing
clearCache_keepsEntry(c, key) == c

\* a clearCache that empties the Map
clearCache_clearsAll(c, key) == EmptyMap

clearCache(c, key) == MapDelete(c, key)

\* clearAllCache()
clearAllCache(c) == EmptyMap

\* a test that takes whatever get returned as a hit
isHit_whateverGetReturns(cached) == TRUE

\* the test `cached !== null` of cachedFetch
isHit(cached) == cached # null

\* getCacheStats(); keys is the set of the Map's keys
getCacheStats(c) == [size |-> Cardinality(DOMAIN c), keys |-> DOMAIN c]

-----------------------------------------------------------------------------
(* History bookkeeping (not program state) *)

\* cache.get(key) as a sequence: <<>> when there is no entry, <<entry>> otherwise
EntryOf(c, key) == IF MapHas(c, key) THEN <<c[key]>> ELSE <<>>

\* an entry exists for key and has not expired at t  (now <= expiresAt)
ValidAt(c, key, t) == MapHas(c, key) /\ t <= c[key].expiry

NoCall == [pc |-> "idle"]

CallIds == 1..MaxCalls

Awaiting(id) == calls[id].pc = "await"

\* the record kept of the most recent operation
Last(op, id, key, ret, pre) == [op |-> op, id |-> id, key |-> key, ret |-> ret, pre |-> pre]

LastNone == Last("init", 0, "", null, <<>>)

\* history of a setCache: ret is the value given, at the clock reading when it
\* was called, ttlArg the ttl given
LastSet(key, data, ttlArg, at, pre) ==
    [op |-> "set", id |-> 0, key |-> key, ret |-> data, pre |-> pre,
     ttlArg |-> ttlArg, at |-> at]

\* the second Date.now() of one statement may read one millisecond later
SecondReading == IF ticks < MaxTicks THEN {now, now + 1} ELSE {now}

-----------------------------------------------------------------------------
(* Operations of the cache API *)

Tick(d) ==
    /\ ticks < MaxTicks
    /\ now' = now + d
    /\ ticks' = ticks + 1
    /\ last' = Last("tick", 0, "", null, <<>>)
    /\ UNCHANGED <<cache, calls>>

GetCached(key) ==
    LET r == getCached(cache, key, now) IN
    /\ cache' = r.cache
    /\ last' = Last("get", 0, key, r.ret, EntryOf(cache, key))
    /\ UNCHANGED <<now, ticks, calls>>

SetCache(key, data, ttlArg) ==
    \E t2 \in SecondReading :
        /\ cache' = setCache(cache, key, data, defaultTtl(ttlArg), now, t2)
        /\ now' = t2
        /\ ticks' = IF t2 = now THEN ticks ELSE ticks + 1
        /\ last' = LastSet(key, data, ttlArg, now, EntryOf(cache, key))
        /\ UNCHANGED calls

ClearCache(key) ==
    /\ cache' = clearCache(cache, key)
    /\ last' = Last("invalidate", 0, key, null, EntryOf(cache, key))
    /\ UNCHANGED <<now, ticks, calls>>

ClearAllCache ==
    /\ cache' = clearAllCache(cache)
    /\ last' = Last("clear", 0, "", null, <<>>)
    /\ UNCHANGED <<now, ticks, calls>>

\* cachedFetch(cacheKey, fetchFunction, ttl) up to its return (hit) or up to
\* `await fetchFunction()` (miss: the producer has been invoked once)
CachedFetch(id, key, ttlArg) ==
    LET r == getCached(cache, key, now) IN
    /\ calls[id].pc = "idle"
    /\ cache' = r.cache
    /\ IF isHit(r.ret)
       THEN /\ calls' = calls
            /\ last' = Last("hit", id, key, r.ret, EntryOf(cache, key))
       ELSE /\ calls' = [calls EXCEPT ![id] = [pc |-> "await", key |-> key,
                                               ttlArg |-> ttlArg, invoked |-> 1]]
            /\ last' = Last("miss", id, key, null, EntryOf(cache, key))
    /\ UNCHANGED <<now, ticks>>

\* the awaited producer resolves with data: setCache(cacheKey, data, ttl); return data
ProducerResolve(id, data) ==
    LET c == calls[id] IN
    /\ Awaiting(id)
    /\ \E t2 \in SecondReading :
        /\ cache' = setCache(cache, c.key, data, defaultTtl(c.ttlArg), now, t2)
        /\ now' = t2
        /\ ticks' = IF t2 = now THEN ticks ELSE ticks + 1
    /\ calls' = [calls EXCEPT ![id] = NoCall]
    /\ last' = Last("resolved", id, c.key, data, EntryOf(cache, c.key))

\* a cachedFetch that caches the failure (negative caching)
ProducerReject_cachesFailure(id) ==
    LET c == calls[id] IN
    /\ Awaiting(id)
    /\ cache' = setCache(cache, c.key, null, defaultTtl(c.ttlArg), now, now)
    /\ calls' = [calls EXCEPT ![id] = NoCall]
    /\ last' = Last("rejected", id, c.key, null, EntryOf(cache, c.key))
    /\ UNCHANGED <<now, ticks>>

\* the awaited producer rejects: the exception leaves cachedFetch
ProducerReject(id) ==
    LET c == calls[id] IN
    /\ Awaiting(id)
    /\ calls' = [calls EXCEPT ![id] = NoCall]
    /\ last' = Last("rejected", id, c.key, null, EntryOf(cache, c.key))
    /\ UNCHANGED <<now, ticks, cache>>

-----------------------------------------------------------------------------
(* services/redashService: the POST-then-poll client *)

\* const MAX_POLL_ATTEMPTS = 12
MAX_POLL_ATTEMPTS == 12

\* const POLL_INTERVAL_MS = 5000
POLL_INTERVAL_MS == 5000

\* max_age of the request body, built once before the loop
BODY_MAX_AGE == 86400

\* the row collections a result can carry
RowSets == {<<>>, <<"r1">>, <<"r1", "r2">>}

\* A parsed response body. An optional property is <<>> when it is absent (or
\* falsy) and <<v>> when it holds v.  json: "object" for a JSON value whose
\* properties can be read, "null" for the JSON literal null, "invalid" for a
\* body response.json() cannot parse.
Body(json, query_result, job) == [json |-> json, query_result |-> query_result, job |-> job]

QueryResults ==
    {[data |-> <<>>], [data |-> <<[rows |-> <<>>]>>]}
        \cup {[data |-> <<[rows |-> <<r>>]>>] : r \in RowSets}

Bodies ==
    {Body("invalid", <<>>, <<>>), Body("null", <<>>, <<>>), Body("object", <<>>, <<>>),
     Body("object", <<>>, <<"job">>)}
        \cup {Body("object", <<q>>, <<>>) : q \in QueryResults}
        \cup {Body("object", <<[data |-> <<[rows |-> <<<<"r1">>>>]>>]>>, <<"job">>)}

\* what one POST can come back with: fetch() rejecting, or a response
Responses ==
    {[net |-> "failed", status |-> 0, body |-> Body("invalid", <<>>, <<>>)]}
        \cup {[net |-> "ok", status |-> st, body |-> Body("invalid", <<>>, <<>>)] : st \in {404, 500}}
        \cup {[net |-> "ok", status |-> 200, body |-> b] : b \in Bodies}

\* a response.ok that takes only 5xx for a failure
ok_onlyServerErrors(response) == response.status < 500

\* response.ok
ok(response) == response.status \in 200..299

Outcome(kind, status, rows) == [kind |-> kind, status |-> status, rows |-> rows]

NoOutcome == Outcome("none", 0, <<>>)

\* the pending branch of the loop body with the bound one too small: gives up
\* one attempt early
pending_givesUpEarly(att) ==
    IF att < MAX_POLL_ATTEMPTS - 2
        THEN [step |-> "sleep", outcome |-> NoOutcome]
    ELSE [step |-> "throw", outcome |-> Outcome("timed out", 0, <<>>)]

\* the pending branch without the inner bound: sleeps after every job
pending_alwaysSleeps(att) == [step |-> "sleep", outcome |-> NoOutcome]

\* `if (data.job)`: wait and retry while attempts remain, else time out
pending(att) ==
    IF att < MAX_POLL_ATTEMPTS - 1
        THEN [step |-> "sleep", outcome |-> NoOutcome]
    ELSE [step |-> "throw", outcome |-> Outcome("timed out", 0, <<>>)]

\* One pass of the loop body after fetch() settles, for the given `attempt`:
\* what the function does next.  step: "return", "throw" or "sleep".
evaluate(response, att) ==
    LET body == response.body IN
    IF response.net = "failed"
        THEN [step |-> "throw", outcome |-> Outcome("fetch failed", 0, <<>>)]
    ELSE IF ~ok(response)
        THEN [step |-> "throw", outcome |-> Outcome("STMO API error", response.status, <<>>)]
    ELSE IF body.json = "invalid"
        THEN [step |-> "throw", outcome |-> Outcome("SyntaxError", 0, <<>>)]
    ELSE IF body.json = "null"
        THEN [step |-> "throw", outcome |-> Outcome("TypeError", 0, <<>>)]
    ELSE IF body.query_result # <<>>
        THEN LET qr == body.query_result[1] IN
             IF qr.data = <<>>
                THEN [step |-> "throw", outcome |-> Outcome("TypeError", 0, <<>>)]
             ELSE IF qr.data[1].rows = <<>>
                THEN [step |-> "return", outcome |-> Outcome("rows", 0, <<>>)]
             ELSE [step |-> "return", outcome |-> Outcome("rows", 0, qr.data[1].rows[1])]
    ELSE IF body.job # <<>>
        THEN pending(att)
    ELSE [step |-> "throw", outcome |-> Outcome("unexpected format", 0, <<>>)]

\* fetchBenchmarkRows(snapshotDate) is called: url and body are built, attempt = 0
PollStart ==
    /\ pollPc = "idle"
    /\ pollPc' = "loop"
    /\ attempt' = 0
    /\ UNCHANGED <<sent, delays, history, outcome>>

\* the loop head: POST the body while attempt < MAX_POLL_ATTEMPTS, else fall out
\* of the loop into the trailing throw
PollSubmit ==
    /\ pollPc = "loop"
    /\ IF attempt < MAX_POLL_ATTEMPTS
       THEN /\ sent' = Append(sent, BODY_MAX_AGE)
            /\ pollPc' = "fetching"
            /\ UNCHANGED outcome
       ELSE /\ outcome' = Outcome("exceeded max poll attempts", 0, <<>>)
            /\ pollPc' = "done"
            /\ UNCHANGED sent
    /\ UNCHANGED <<attempt, delays, history>>

\* fetch() settles with `response`; the rest of the loop body runs
PollRespond(response) ==
    LET e == evaluate(response, attempt) IN
    /\ pollPc = "fetching"
    /\ history' = Append(history, response)
    /\ IF e.step = "sleep"
       THEN /\ pollPc' = "sleeping"
            /\ delays' = delays + 1
            /\ UNCHANGED outcome
       ELSE /\ pollPc' = "done"
            /\ outcome' = e.outcome
            /\ UNCHANGED delays
    /\ UNCHANGED <<attempt, sent>>

\* the timer of sleep(POLL_INTERVAL_MS) fires: `continue`, attempt++
PollWake ==
    /\ pollPc = "sleeping"
    /\ attempt' = attempt + 1
    /\ pollPc' = "loop"
    /\ UNCHANGED <<sent, delays, history, outcome>>

InitPoll ==
    /\ pollPc = "idle"
    /\ attempt = 0
    /\ sent = <<>>
    /\ delays = 0
    /\ history = <<>>
    /\ outcome = NoOutcome

-----------------------------------------------------------------------------
(* services/bugzillaService: the cached domain queries *)

\* The order of Array.prototype.sort() on the strings the model uses
LexOrder == <<"7", "all", "ids", "impactLevel", "limit">>

Rank(str) == CHOOSE i \in 1..Len(LexOrder) : LexOrder[i] = str

\* insert `pair` into the list `sorted` of <<name, value>> pairs, by name
RECURSIVE InsertByName(_, _)
InsertByName(sorted, pair) ==
    IF sorted = <<>> THEN <<pair>>
    ELSE IF Rank(pair[1]) < Rank(Head(sorted)[1]) THEN <<pair>> \o sorted
    ELSE <<Head(sorted)>> \o InsertByName(Tail(sorted), pair)

\* Object.keys(params) without the sort()
SortedParams_unsorted(params) == params

\* Object.keys(params).sort(), each name with its value
RECURSIVE SortedParams(_)
SortedParams(params) ==
    IF params = <<>> THEN <<>>
    ELSE InsertByName(SortedParams(Tail(params)), Head(params))

\* a join that puts the separator after every element
RECURSIVE Join_trailingSep(_, _)
Join_trailingSep(strs, sep) ==
    IF strs = <<>> THEN ""
    ELSE strs[1] \o sep \o Join_trailingSep(Tail(strs), sep)

\* Array.prototype.join
RECURSIVE Join(_, _)
Join(strs, sep) ==
    IF strs = <<>> THEN ""
    ELSE IF Len(strs) = 1 THEN strs[1]
    ELSE strs[1] \o sep \o Join(Tail(strs), sep)

\* generateCacheKey(prefix, params); params lists the object's properties
generateCacheKey(prefix, params) ==
    LET sorted == SortedParams(params) IN
    prefix \o ":" \o Join([i \in 1..Len(sorted) |-> sorted[i][1] \o "=" \o sorted[i][2]], "&")

\* the prefixes and the params objects generateCacheKey is called with: up to
\* MaxParams properties with distinct names, in any insertion order
Prefixes == {"perf-impact", "priority-bugs"}
ParamNames == {"all", "ids", "impactLevel", "limit"}
ParamValues == {"high", "true"}
ParamObjects ==
    UNION {{p \in [1..n -> ParamNames \X ParamValues] :
                \A i, j \in 1..n : p[i][1] = p[j][1] => i = j} : n \in 0..MaxParams}

NothingBuilt == [prefix |-> "", params |-> <<>>, key |-> ""]

\* a call generateCacheKey(prefix, params)
GenerateCacheKey(prefix, params) ==
    built' = [prefix |-> prefix, params |-> params, key |-> generateCacheKey(prefix, params)]

\* [...bugIds].sort()
RECURSIVE SortIds(_)
SortIds(bugIds) ==
    IF bugIds = <<>> THEN <<>>
    ELSE LET rest == SortIds(Tail(bugIds))
             pairs == InsertByName([i \in 1..Len(rest) |-> <<rest[i], rest[i]>>],
                                   <<Head(bugIds), Head(bugIds)>>)
         IN [i \in 1..Len(pairs) |-> pairs[i][1]]

\* the key fetchBugsByPerformanceImpact(impactLevel) caches under
perfImpactKey(impactLevel) ==
    generateCacheKey("perf-impact", <<<<"impactLevel", impactLevel>>>>)

\* the key fetchBugsByIds(bugIds) caches under
priorityBugsKey(bugIds) ==
    generateCacheKey("priority-bugs", <<<<"ids", Join(SortIds(bugIds), ",")>>>>)

\* clearPerformanceImpactCache(impactLevel); <<>> stands for no argument
clearPerformanceImpactCache(c, impactLevel) ==
    IF impactLevel # <<>>
        THEN clearCache(c, perfImpactKey(impactLevel[1]))
    ELSE clearCache(clearCache(clearCache(c, "perf-impact:high"),
                               "perf-impact:medium"), "perf-impact:low")

\* { ...base, ...extra }: a property of extra replaces the one of base with the
\* same name where it stands, the others follow in extra's order
Spread(base, extra) ==
    LET Given(name) == {j \in 1..Len(extra) : extra[j][1] = name}
        Replaced(pair) == IF Given(pair[1]) = {} THEN pair
                          ELSE extra[CHOOSE j \in Given(pair[1]) : TRUE]
    IN [i \in 1..Len(base) |-> Replaced(base[i])]
       \o SelectSeq(extra, LAMBDA pair : \A i \in 1..Len(base) : base[i][1] # pair[1])

\* the properties of an object, whatever their order
Properties(params) == {params[i] : i \in 1..Len(params)}

\* a domain query call: what it asks the backend and the key it caches under
Query(fn, request, key) == [fn |-> fn, request |-> request, key |-> key]
NoQuery == Query("none", {}, "")

\* fetchBugsByPerformanceImpact(impactLevel, additionalParams)
fetchBugsByPerformanceImpact(impactLevel, additionalParams) ==
    Query("fetchBugsByPerformanceImpact",
          Properties(Spread(<<<<"f1", "cf_performance_impact">>, <<"o1", "equals">>,
                              <<"v1", impactLevel>>, <<"resolution", "---">>,
                              <<"bug_type", "defect">>, <<"limit", "1000">>>>,
                            additionalParams)),
          generateCacheKey("perf-impact",
                           Spread(<<<<"impactLevel", impactLevel>>>>, additionalParams)))

\* fetchAllPerformanceImpactBugs(additionalParams)
fetchAllPerformanceImpactBugs(additionalParams) ==
    Query("fetchAllPerformanceImpactBugs",
          Properties(Spread(<<<<"f1", "cf_performance_impact">>, <<"o1", "anyexact">>,
                              <<"v1", "high,medium,low">>, <<"resolution", "---">>,
                              <<"bug_type", "defect">>, <<"limit", "1000">>>>,
                            additionalParams)),
          generateCacheKey("perf-impact", Spread(<<<<"all", "true">>>>, additionalParams)))

\* fetchBugsByIds(bugIds) with ids given: the request asks for the bugs with
\* these ids (id=..&id=..)
fetchBugsByIds(bugIds) ==
    Query("fetchBugsByIds",
          {<<"id", bugIds[i]>> : i \in 1..Len(bugIds)},
          priorityBugsKey(bugIds))

\* the additionalParams objects given: at most two properties
AdditionalParams == {p \in ParamObjects : Len(p) <= 2}

\* the id arrays given
IdArrays == {<<"7">>, <<"7", "7">>, <<"all">>, <<"7", "all">>, <<"all", "7">>}

\* a domain query is called
Ask(query) ==
    /\ asked' = query
    /\ UNCHANGED <<overviewPerfCounts, overview, priorityBugTags, superseded, tainted>>

\* what fetchBugs resolves with for a query while Bugzilla is at `revision`
Bugs(query, revision) == query \o "@r" \o <<"0", "1", "2", "3">>[revision + 1]

-----------------------------------------------------------------------------
(* components/Dashboard: the effects that load and the handlers that refresh *)

Views == {"overview", "perfimpact", "perfpriority"}
Levels == {"high", "medium"}
Subsections == {"speedometer3", "prioritybugs"}
BugIdInputs == {"7"}

\* useState([]) of perfImpactBugs and priorityBugs
NoBugs == "[]"

NoTask == [handler |-> "none"]

\* history: the step served nothing from the cache
NoHit == Last("none", 0, "", null, <<>>)

\* a handler suspended at `await fetchBugsBy...(...)`; `old` is the entry the
\* query's key had when a refresh began waiting
Task(handler, query, useCache, old) ==
    [handler |-> handler, query |-> query, useCache |-> useCache, old |-> old]

FreeIds == {i \in CallIds : tasks[i] = NoTask}

\* the suspended handler gets the lowest free slot
Suspend(task) ==
    /\ FreeIds # {}
    /\ LET id == CHOOSE i \in FreeIds : \A j \in FreeIds : i <= j IN
       tasks' = [tasks EXCEPT ![id] = task]

\* loadPerfImpactBugs() past its guard: fetchBugsByPerformanceImpact(level)
\* through cachedFetch, up to the first await that does not settle at once
loadPerfImpactBugs(level) ==
    LET key == perfImpactKey(level)
        found == getCached(cache, key, now) IN
    /\ cache' = found.cache
    /\ IF isHit(found.ret)
       THEN /\ perfImpactBugs' = found.ret
            /\ perfImpactLoading' = FALSE
            /\ last' = Last("hit", 0, key, found.ret, <<>>)
            /\ UNCHANGED tasks
       ELSE /\ perfImpactLoading' = TRUE
            /\ Suspend(Task("loadPerfImpactBugs", key, TRUE, <<>>))
            /\ last' = NoHit
            /\ UNCHANGED perfImpactBugs
    /\ UNCHANGED <<priorityBugs, priorityBugsLoading>>

\* loadPriorityBugs(): fetchBugsByIds(priorityBugIds) through cachedFetch
loadPriorityBugs(ids) ==
    LET key == priorityBugsKey(ids)
        found == getCached(cache, key, now) IN
    /\ cache' = found.cache
    /\ IF isHit(found.ret)
       THEN /\ priorityBugs' = found.ret
            /\ priorityBugsLoading' = FALSE
            /\ last' = Last("hit", 0, key, found.ret, <<>>)
            /\ UNCHANGED tasks
       ELSE /\ priorityBugsLoading' = TRUE
            /\ Suspend(Task("loadPriorityBugs", key, TRUE, <<>>))
            /\ last' = NoHit
            /\ UNCHANGED priorityBugs
    /\ UNCHANGED <<perfImpactBugs, perfImpactLoading>>

\* A state update and the render after it: the effects whose dependencies
\* changed run.  newIds tells that setPriorityBugIds stored a new array.
Render(view, level, sub, ids, newIds) ==
    LET perfDeps == view # activeView \/ level # perfImpactLevel
        prioDeps == newIds \/ view # activeView \/ sub # perfPrioritySubsection
    IN
    /\ activeView' = view
    /\ perfImpactLevel' = level
    /\ perfPrioritySubsection' = sub
    /\ priorityBugIds' = ids
    /\ IF perfDeps /\ view = "perfimpact"
          THEN loadPerfImpactBugs(level)
       ELSE IF prioDeps /\ view = "perfpriority" /\ sub = "prioritybugs"
          THEN IF ids = <<>>
                  THEN /\ priorityBugs' = NoBugs
                       /\ last' = NoHit
                       /\ UNCHANGED <<cache, tasks, perfImpactBugs, perfImpactLoading,
                                      priorityBugsLoading>>
               ELSE loadPriorityBugs(ids)
       ELSE /\ last' = NoHit
            /\ UNCHANGED <<cache, tasks, perfImpactBugs, perfImpactLoading,
                           priorityBugs, priorityBugsLoading>>
    /\ UNCHANGED <<now, ticks, calls, bugzilla, stale>>

\* a navigation button: setActiveView(view)
SetActiveView(view) ==
    /\ view # activeView
    /\ Render(view, perfImpactLevel, perfPrioritySubsection, priorityBugIds, FALSE)

\* a bar of the overview's impact chart is clicked
handleImpactBarClick(index) ==
    /\ activeView = "overview"
    /\ IF index = 0
       THEN Render("perfpriority", perfImpactLevel, "prioritybugs", priorityBugIds, FALSE)
       ELSE Render("perfimpact", <<"high", "medium", "low">>[index],
                   perfPrioritySubsection, priorityBugIds, FALSE)

\* the impact-level select: setPerfImpactLevel(level)
SetPerfImpactLevel(level) ==
    /\ activeView = "perfimpact"
    /\ level # perfImpactLevel
    /\ Render(activeView, level, perfPrioritySubsection, priorityBugIds, FALSE)

\* a subsection button: setPerfPrioritySubsection(sub)
SetPerfPrioritySubsection(sub) ==
    /\ activeView = "perfpriority"
    /\ sub # perfPrioritySubsection
    /\ Render(activeView, perfImpactLevel, sub, priorityBugIds, FALSE)

\* an add that does not look whether the id is there
AddId_appends(prev, id) == Append(prev, id)

\* [...new Set([...prev, id])]
AddId(prev, id) ==
    IF \E i \in 1..Len(prev) : prev[i] = id THEN prev ELSE Append(prev, id)

\* prev.filter(bid => bid !== id)
RemoveId(prev, id) == SelectSeq(prev, LAMBDA bid : bid # id)

\* handleAddPriorityBugs with one id typed in
handleAddPriorityBugs(id) ==
    /\ activeView = "perfpriority" /\ perfPrioritySubsection = "prioritybugs"
    /\ Render(activeView, perfImpactLevel, perfPrioritySubsection,
              AddId(priorityBugIds, id), TRUE)

\* handleRemovePriorityBugId(id), on the chip of a tracked id
handleRemovePriorityBugId(id) ==
    /\ activeView = "perfpriority" /\ perfPrioritySubsection = "prioritybugs"
    /\ \E i \in 1..Len(priorityBugIds) : priorityBugIds[i] = id
    /\ Render(activeView, perfImpactLevel, perfPrioritySubsection,
              RemoveId(priorityBugIds, id), TRUE)


\* handleRefreshPerfImpact up to its await: the button is there while the
\* perf-impact tab is shown and is disabled while perfImpactLoading
handleRefreshPerfImpact ==
    LET key == perfImpactKey(perfImpactLevel) IN
    /\ activeView = "perfimpact"
    /\ ~perfImpactLoading
    /\ cache' = clearPerformanceImpactCache(cache, <<perfImpactLevel>>)
    /\ perfImpactLoading' = TRUE
    /\ Suspend(Task("handleRefreshPerfImpact", key, FALSE, EntryOf(cache', key)))
    /\ last' = NoHit
    /\ UNCHANGED <<now, ticks, calls, bugzilla, stale, activeView, perfImpactLevel,
                   perfPrioritySubsection, priorityBugIds, perfImpactBugs,
                   priorityBugs, priorityBugsLoading>>

\* handleRefreshPriorityBugs up to its await: the button is there in the
\* priority-bugs subsection, disabled while loading or with no ids
handleRefreshPriorityBugs ==
    LET key == priorityBugsKey(priorityBugIds) IN
    /\ activeView = "perfpriority" /\ perfPrioritySubsection = "prioritybugs"
    /\ ~priorityBugsLoading
    /\ priorityBugIds # <<>>
    /\ priorityBugsLoading' = TRUE
    /\ Suspend(Task("handleRefreshPriorityBugs", key, FALSE, EntryOf(cache, key)))
    /\ last' = NoHit
    /\ UNCHANGED <<now, ticks, cache, calls, bugzilla, stale, activeView, perfImpactLevel,
                   perfPrioritySubsection, priorityBugIds, perfImpactBugs,
                   perfImpactLoading, priorityBugs>>

PerfHandlers == {"loadPerfImpactBugs", "handleRefreshPerfImpact"}
RefreshHandlers == {"handleRefreshPerfImpact", "handleRefreshPriorityBugs"}

\* the keys whose entry a refresh that now ends found and left in the cache
Outlived(task, c) ==
    IF task.handler \in RefreshHandlers /\ task.old # <<>> /\ EntryOf(c, task.query) = task.old
        THEN {task.query}
    ELSE {}

\* a completion that stores the bugs whether or not the query went through
\* cachedFetch
TaskResolve_alwaysStores(id) ==
    LET task == tasks[id]
        data == Bugs(task.query, bugzilla) IN
    /\ task # NoTask
    /\ cache' = setCache(cache, task.query, data, defaultTtl(<<>>), now, now)
    /\ stale' = stale
    /\ IF task.handler \in PerfHandlers
       THEN /\ perfImpactBugs' = data
            /\ perfImpactLoading' = FALSE
            /\ UNCHANGED <<priorityBugs, priorityBugsLoading>>
       ELSE /\ priorityBugs' = data
            /\ priorityBugsLoading' = FALSE
            /\ UNCHANGED <<perfImpactBugs, perfImpactLoading>>
    /\ tasks' = [tasks EXCEPT ![id] = NoTask]
    /\ last' = NoHit
    /\ UNCHANGED <<now, ticks, calls, bugzilla, activeView, perfImpactLevel,
                   perfPrioritySubsection, priorityBugIds>>

\* the fetch of a suspended handler resolves: cachedFetch stores the bugs when
\* the query went through it, then the handler shows them and ends loading
TaskResolve(id) ==
    LET task == tasks[id]
        data == Bugs(task.query, bugzilla) IN
    /\ task # NoTask
    /\ cache' = IF task.useCache
                   THEN setCache(cache, task.query, data, defaultTtl(<<>>), now, now)
                ELSE cache
    /\ stale' = (IF task.useCache THEN stale \ {task.query} ELSE stale)
                    \cup Outlived(task, cache')
    /\ IF task.handler \in PerfHandlers
       THEN /\ perfImpactBugs' = data
            /\ perfImpactLoading' = FALSE
            /\ UNCHANGED <<priorityBugs, priorityBugsLoading>>
       ELSE /\ priorityBugs' = data
            /\ priorityBugsLoading' = FALSE
            /\ UNCHANGED <<perfImpactBugs, perfImpactLoading>>
    /\ tasks' = [tasks EXCEPT ![id] = NoTask]
    /\ last' = NoHit
    /\ UNCHANGED <<now, ticks, calls, bugzilla, activeView, perfImpactLevel,
                   perfPrioritySubsection, priorityBugIds>>

\* the fetch of a suspended handler fails: nothing is stored, the handler
\* records the error and ends loading
TaskReject(id) ==
    LET task == tasks[id] IN
    /\ task # NoTask
    /\ stale' = stale \cup Outlived(task, cache)
    /\ IF task.handler \in PerfHandlers
       THEN /\ perfImpactLoading' = FALSE
            /\ UNCHANGED priorityBugsLoading
       ELSE /\ priorityBugsLoading' = FALSE
            /\ UNCHANGED perfImpactLoading
    /\ tasks' = [tasks EXCEPT ![id] = NoTask]
    /\ last' = NoHit
    /\ UNCHANGED <<now, ticks, cache, calls, bugzilla, activeView, perfImpactLevel,
                   perfPrioritySubsection, priorityBugIds, perfImpactBugs, priorityBugs>>

\* the bugs on Bugzilla change
BugzillaChanges ==
    /\ bugzilla < MaxRevisions
    /\ bugzilla' = bugzilla + 1
    /\ UNCHANGED <<cacheVars, stale, activeView, perfImpactLevel, perfPrioritySubsection,
                   priorityBugIds, perfImpactBugs, perfImpactLoading, priorityBugs,
                   priorityBugsLoading, tasks>>

-----------------------------------------------------------------------------
(* components/Dashboard: the overview's counts, loaded with Promise.all *)

ImpactLevels == <<"high", "medium", "low">>

\* useState({ high: 0, medium: 0, low: 0 })
NoCounts == [high |-> 0, medium |-> 0, low |-> 0]

\* bugs.length of a list fetchBugsByPerformanceImpact resolved with
length(bugs) ==
    LET known == {p \in (1..3) \X (0..3) :
                     Bugs(perfImpactKey(ImpactLevels[p[1]]), p[2]) = bugs} IN
    IF known = {} THEN 0
    ELSE LET p == CHOOSE q \in known : TRUE IN p[1] + p[2]

\* one of the three promises given to Promise.all
Fetch(st, bugs) == [st |-> st, bugs |-> bugs]
NoFetch == Fetch("none", NoBugs)

\* one run of loadOverviewPerfCounts: the promise of Promise.all and the three
\* fetches it waits for
NoRun == [result |-> "none", fetch |-> [i \in 1..3 |-> NoFetch]]

\* an aggregate that waits for every promise to settle and takes the ones that
\* resolved (Promise.allSettled)
all_takesWhatResolved(fetch) ==
    IF \A i \in 1..3 : fetch[i].st # "pending" THEN "fulfilled" ELSE "pending"

\* Promise.all: rejected as soon as one promise rejects, fulfilled once every
\* promise has resolved
all(fetch) ==
    IF \E i \in 1..3 : fetch[i].st = "rejected" THEN "rejected"
    ELSE IF \A i \in 1..3 : fetch[i].st = "resolved" THEN "fulfilled"
    ELSE "pending"

\* { high: highBugs.length, medium: medBugs.length, low: lowBugs.length }
Counts(fetch) ==
    [high |-> length(fetch[1].bugs), medium |-> length(fetch[2].bugs),
     low |-> length(fetch[3].bugs)]

\* once the aggregate has settled only the fetches still in flight matter
Forget(fetch) == [i \in 1..3 |-> IF fetch[i].st = "pending" THEN fetch[i] ELSE NoFetch]

\* run r goes on with its fetches at `fetch`: while it awaits Promise.all the
\* aggregate may settle, and setOverviewPerfCounts runs if it is fulfilled
Advance(r, awaiting, fetch) ==
    LET result == IF awaiting THEN all(fetch) ELSE overview[r].result IN
    /\ overview' = [overview EXCEPT ![r] =
                       [result |-> result,
                        fetch |-> IF result = "pending" THEN fetch ELSE Forget(fetch)]]
    /\ overviewPerfCounts' = IF awaiting /\ result = "fulfilled" THEN Counts(fetch)
                             ELSE overviewPerfCounts

\* a run whose aggregate has settled and whose fetches have all ended
FreeRun(r) ==
    /\ overview[r].result # "pending"
    /\ \A i \in 1..3 : overview[r].fetch[i].st # "pending"

\* the promise cachedFetch gives for a level: resolved with the entry on a hit,
\* pending on the backend on a miss
Started(found) ==
    IF isHit(found.ret) THEN Fetch("resolved", found.ret) ELSE Fetch("pending", NoBugs)

\* the effect on entering the overview: the three fetchBugsByPerformanceImpact
\* calls are made in order, each looking its key up, then Promise.all is awaited
loadOverviewPerfCounts(r) ==
    LET high == getCached(cache, perfImpactKey("high"), now)
        medium == getCached(high.cache, perfImpactKey("medium"), now)
        low == getCached(medium.cache, perfImpactKey("low"), now) IN
    /\ activeView = "overview"
    /\ FreeRun(r)
    /\ \A q \in 1..(r - 1) : ~FreeRun(q)
    /\ cache' = low.cache
    /\ Advance(r, TRUE, <<Started(high), Started(medium), Started(low)>>)
    /\ UNCHANGED <<now, ticks, calls, last, dashVars, priorityBugTags, asked, superseded, tainted>>

\* the backend answers fetch i of run r: cachedFetch stores the bugs and the
\* promise resolves with them
OverviewFetchResolve(r, i) ==
    LET key == perfImpactKey(ImpactLevels[i])
        data == Bugs(key, bugzilla) IN
    /\ overview[r].fetch[i].st = "pending"
    /\ cache' = setCache(cache, key, data, defaultTtl(<<>>), now, now)
    /\ Advance(r, overview[r].result = "pending",
               [overview[r].fetch EXCEPT ![i] = Fetch("resolved", data)])
    /\ UNCHANGED <<now, ticks, calls, last, dashVars, priorityBugTags, asked, superseded, tainted>>

\* fetch i of run r fails: nothing is stored and the promise rejects
OverviewFetchReject(r, i) ==
    /\ overview[r].fetch[i].st = "pending"
    /\ Advance(r, overview[r].result = "pending",
               [overview[r].fetch EXCEPT ![i] = Fetch("rejected", NoBugs)])
    /\ UNCHANGED <<cacheVars, dashVars, priorityBugTags, asked, superseded, tainted>>

-----------------------------------------------------------------------------
(* components/Dashboard: the tracked ids and their tags *)

\* [...new Set(ids)]: the distinct elements in the order of their first occurrence
RECURSIVE Distinct(_)
Distinct(ids) ==
    IF ids = <<>> THEN <<>>
    ELSE AddId(Distinct(SubSeq(ids, 1, Len(ids) - 1)), ids[Len(ids)])

\* the ids a bug is given by, each already a string of digits
PriorityIds == {"7", "42"}

\* what the input field is parsed to: up to two ids, the same one twice included
ParsedInputs == {<<>>} \cup {<<a>> : a \in PriorityIds}
                \cup {<<a, b>> : a \in PriorityIds, b \in PriorityIds}

\* the tags typed in
TagInputs == {"perf", " perf!", ""}

\* tag.trim().replace(/[^a-zA-Z0-9]/g, '').slice(0, 15) of the tags typed in
cleaned(tag) ==
    IF tag = "perf" THEN "perf"
    ELSE IF tag = " perf!" THEN "perf"
    ELSE IF tag = "Perf High" THEN "PerfHigh"
    ELSE IF tag = "Perf Med" THEN "PerfMed"
    ELSE IF tag = "Perf Low" THEN "PerfLow"
    ELSE ""

\* tagMap[perfImpactLevel]; <<>> stands for undefined
tagMap(level) ==
    IF level = "high" THEN <<"Perf High">>
    ELSE IF level = "medium" THEN <<"Perf Med">>
    ELSE IF level = "low" THEN <<"Perf Low">>
    ELSE <<>>

\* prev[id] || []
TagsOf(prev, id) == IF MapHas(prev, id) THEN prev[id] ELSE <<>>

\* existing.includes(tag)
includes(existing, tag) == \E i \in 1..Len(existing) : existing[i] = tag

\* the updater of handleAddBugTag and handleAddToPriority:
\* existing.includes(tag) ? prev : { ...prev, [id]: [...existing, tag] }
AddTag(prev, id, tag) ==
    IF includes(TagsOf(prev, id), tag) THEN prev
    ELSE MapSet(prev, id, Append(TagsOf(prev, id), tag))

\* what the handlers of the ids and the tags leave alone.  The effects that run
\* after setPriorityBugIds load bugs and write neither the ids nor the tags
\* (Render, loadPriorityBugs, TaskResolve); they are followed under SpecDash.
notPriority ==
    <<cacheVars, pollVars, keyVars, activeView, perfImpactLevel, perfPrioritySubsection,
      perfImpactBugs, perfImpactLoading, priorityBugs, priorityBugsLoading, tasks,
      bugzilla, stale, overviewPerfCounts, overview, asked, superseded, tainted>>

\* handleAddPriorityBugs with the input parsed to `parsed`:
\* setPriorityBugIds(prev => [...new Set([...prev, ...parsed])])
AddPriorityBugs(parsed) ==
    /\ parsed # <<>>
    /\ priorityBugIds' = Distinct(priorityBugIds \o parsed)
    /\ UNCHANGED <<priorityBugTags, notPriority>>

\* handleRemovePriorityBugId(id): setPriorityBugIds(prev => prev.filter(...))
RemovePriorityBugId(id) ==
    /\ priorityBugIds' = RemoveId(priorityBugIds, id)
    /\ UNCHANGED <<priorityBugTags, notPriority>>

\* handleAddBugTag(bugId, tag)
handleAddBugTag(bugId, tag) ==
    /\ cleaned(tag) # ""
    /\ priorityBugTags' = AddTag(priorityBugTags, bugId, cleaned(tag))
    /\ UNCHANGED <<priorityBugIds, notPriority>>

\* handleRemoveBugTag(bugId, tag)
handleRemoveBugTag(bugId, tag) ==
    /\ priorityBugTags' = MapSet(priorityBugTags, bugId,
                                 SelectSeq(TagsOf(priorityBugTags, bugId), LAMBDA t : t # tag))
    /\ UNCHANGED <<priorityBugIds, notPriority>>

\* handleAddToPriority(bugId), the tag taken from the level selected
handleAddToPriority(bugId) ==
    LET tag == tagMap(perfImpactLevel) IN
    /\ priorityBugIds' = IF includes(priorityBugIds, bugId) THEN priorityBugIds
                         ELSE Append(priorityBugIds, bugId)
    /\ priorityBugTags' = IF tag # <<>> THEN AddTag(priorityBugTags, bugId, tag[1])
                          ELSE priorityBugTags
    /\ UNCHANGED notPriority

\* no element occurs twice
DuplicateFree(list) == \A i, j \in 1..Len(list) : list[i] = list[j] => i = j

\* what localStorage may hold of an earlier session: duplicate-free ids, and
\* for each bug no tags or one tag
StoredIds == {ids \in ParsedInputs : DuplicateFree(ids)}
StoredTags ==
    {EmptyMap} \cup {MapSet(EmptyMap, id, tags) :
                        id \in PriorityIds, tags \in {<<>>, <<"perf">>, <<"Perf High">>}}

\* clearPerformanceImpactCache() called with no impact level
ClearPerformanceImpactCache ==
    /\ cache' = clearPerformanceImpactCache(cache, <<>>)
    /\ last' = Last("clearPerformanceImpactCache", 0, "", null, <<>>)
    /\ UNCHANGED <<now, ticks, calls>>

\* The dashboard is mounted on the overview with nothing tracked, its first
\* loads have ended and left nothing in the cache
InitDash ==
    /\ activeView = "overview"
    /\ perfImpactLevel = "high"
    /\ perfPrioritySubsection = "speedometer3"
    /\ priorityBugIds = <<>>
    /\ perfImpactBugs = NoBugs
    /\ perfImpactLoading = FALSE
    /\ priorityBugs = NoBugs
    /\ priorityBugsLoading = FALSE
    /\ tasks = [i \in CallIds |-> NoTask]
    /\ bugzilla = 0
    /\ stale = {}

InitHome ==
    /\ overviewPerfCounts = NoCounts
    /\ overview = [r \in CallIds |-> NoRun]
    /\ priorityBugTags = EmptyMap
    /\ asked = NoQuery
    /\ superseded = {}
    /\ tainted = {}

-----------------------------------------------------------------------------
(* Specifications *)

InitCache ==
    /\ now = 0
    /\ ticks = 0
    /\ cache = EmptyMap
    /\ calls = [i \in CallIds |-> NoCall]
    /\ last = LastNone

InitKey == built = NothingBuilt

Init == InitCache /\ InitPoll /\ InitDash /\ InitKey /\ InitHome

\* The dashboard as it is with ids and tags of an earlier session, while every
\* fetch so far has failed: nothing is shown or cached, any level is selected
InitStored ==
    /\ InitCache /\ InitPoll /\ InitKey
    /\ activeView = "overview"
    /\ perfImpactLevel \in Properties(ImpactLevels)
    /\ perfPrioritySubsection = "speedometer3"
    /\ priorityBugIds \in StoredIds
    /\ perfImpactBugs = NoBugs
    /\ perfImpactLoading = FALSE
    /\ priorityBugs = NoBugs
    /\ priorityBugsLoading = FALSE
    /\ tasks = [i \in CallIds |-> NoTask]
    /\ bugzilla = 0
    /\ stale = {}
    /\ overviewPerfCounts = NoCounts
    /\ overview = [r \in CallIds |-> NoRun]
    /\ priorityBugTags \in StoredTags
    /\ asked = NoQuery
    /\ superseded = {}
    /\ tainted = {}

notCache == <<pollVars, dashVars, keyVars, homeVars>>
notCacheNorRace == <<pollVars, dashVars, keyVars, overviewPerfCounts, overview,
                    priorityBugTags, asked>>
notPoll == <<cacheVars, dashVars, keyVars, homeVars>>
notDash == <<pollVars, keyVars, homeVars>>
notKey == <<cacheVars, pollVars, dashVars, homeVars>>

\* The cache API used directly, on two keys
NextStore ==
    \/ \E d \in Jumps : Tick(d) /\ UNCHANGED notCache
    \/ \E key \in Keys : GetCached(key) /\ UNCHANGED notCache
    \/ \E key \in Keys, data \in Values, ttlArg \in TtlArgs :
          SetCache(key, data, ttlArg) /\ UNCHANGED notCache
    \/ \E key \in Keys : ClearCache(key) /\ UNCHANGED notCache
    \/ ClearAllCache /\ UNCHANGED notCache

SpecStore == Init /\ [][NextStore]_vars

\* cachedFetch with concurrent callers on one key, among direct uses of the API
NextFetch ==
    \/ \E d \in Jumps : Tick(d) /\ UNCHANGED notCache
    \/ \E key \in FetchKeys : GetCached(key) /\ UNCHANGED notCache
    \/ \E key \in FetchKeys, data \in Values, ttlArg \in TtlArgs :
          SetCache(key, data, ttlArg) /\ UNCHANGED notCache
    \/ \E key \in FetchKeys : ClearCache(key) /\ UNCHANGED notCache
    \/ ClearAllCache /\ UNCHANGED notCache
    \/ \E id \in CallIds, key \in FetchKeys, ttlArg \in TtlArgs :
          CachedFetch(id, key, ttlArg) /\ UNCHANGED notCache
    \/ \E id \in CallIds, data \in Values : ProducerResolve(id, data) /\ UNCHANGED notCache
    \/ \E id \in CallIds : ProducerReject(id) /\ UNCHANGED notCache

SpecFetch == Init /\ [][NextFetch]_vars

\* cachedFetch calls and invalidations of their key interleaved; the history
\* follows which calls were in flight when their key was invalidated and which
\* entries such calls stored
NextRace ==
    \/ \E d \in Jumps : Tick(d) /\ UNCHANGED notCache
    \/ \E key \in FetchKeys :
          /\ ClearCache(key)
          /\ superseded' = superseded \cup {id \in CallIds : Awaiting(id) /\ calls[id].key = key}
          /\ tainted' = tainted \ {key}
          /\ UNCHANGED notCacheNorRace
    \/ \E id \in CallIds, key \in FetchKeys, ttlArg \in TtlArgs :
          CachedFetch(id, key, ttlArg) /\ UNCHANGED notCache
    \/ \E id \in CallIds, data \in Values :
          /\ ProducerResolve(id, data)
          /\ superseded' = superseded \ {id}
          /\ tainted' = IF id \in superseded THEN tainted \cup {calls[id].key}
                        ELSE tainted \ {calls[id].key}
          /\ UNCHANGED notCacheNorRace
    \/ \E id \in CallIds :
          /\ ProducerReject(id)
          /\ superseded' = superseded \ {id}
          /\ UNCHANGED <<notCacheNorRace, tainted>>

SpecRace == Init /\ [][NextRace]_vars

\* one invocation of the poll client against an arbitrary backend
NextPoll ==
    \/ PollStart /\ UNCHANGED notPoll
    \/ PollSubmit /\ UNCHANGED notPoll
    \/ \E response \in Responses : PollRespond(response) /\ UNCHANGED notPoll
    \/ PollWake /\ UNCHANGED notPoll

SpecPoll == Init /\ [][NextPoll]_vars

\* the same where every request and every timer eventually completes
SpecPollFair == SpecPoll /\ WF_vars(NextPoll)

\* the dashboard's tabs, loads and manual refreshes, within one TTL
NextRefresh ==
    \/ \E view \in Views : SetActiveView(view) /\ UNCHANGED notDash
    \/ \E index \in 0..2 : handleImpactBarClick(index) /\ UNCHANGED notDash
    \/ \E level \in Levels : SetPerfImpactLevel(level) /\ UNCHANGED notDash
    \/ \E sub \in Subsections : SetPerfPrioritySubsection(sub) /\ UNCHANGED notDash
    \/ \E id \in BugIdInputs : handleAddPriorityBugs(id) /\ UNCHANGED notDash
    \/ \E id \in BugIdInputs : handleRemovePriorityBugId(id) /\ UNCHANGED notDash
    \/ handleRefreshPerfImpact /\ UNCHANGED notDash
    \/ handleRefreshPriorityBugs /\ UNCHANGED notDash
    \/ \E id \in CallIds : TaskResolve(id) /\ UNCHANGED notDash
    \/ \E id \in CallIds : TaskReject(id) /\ UNCHANGED notDash
    \/ BugzillaChanges /\ UNCHANGED notDash

SpecRefresh == Init /\ [][NextRefresh]_vars

\* the dashboard's tabs, loads and manual refreshes while the data on Bugzilla
\* stays as it is
NextDash ==
    \/ \E view \in Views : SetActiveView(view) /\ UNCHANGED notDash
    \/ \E index \in 0..2 : handleImpactBarClick(index) /\ UNCHANGED notDash
    \/ \E level \in Levels : SetPerfImpactLevel(level) /\ UNCHANGED notDash
    \/ \E sub \in Subsections : SetPerfPrioritySubsection(sub) /\ UNCHANGED notDash
    \/ \E id \in BugIdInputs : handleAddPriorityBugs(id) /\ UNCHANGED notDash
    \/ \E id \in BugIdInputs : handleRemovePriorityBugId(id) /\ UNCHANGED notDash
    \/ handleRefreshPerfImpact /\ UNCHANGED notDash
    \/ handleRefreshPriorityBugs /\ UNCHANGED notDash
    \/ \E id \in CallIds : TaskResolve(id) /\ UNCHANGED notDash
    \/ \E id \in CallIds : TaskReject(id) /\ UNCHANGED notDash

SpecDash == Init /\ [][NextDash]_vars

\* the overview entered again and again while its fetches are answered
NextOverview ==
    \/ \E r \in CallIds : loadOverviewPerfCounts(r) /\ UNCHANGED <<pollVars, keyVars>>
    \/ \E r \in CallIds, i \in 1..3 : OverviewFetchResolve(r, i)
                                         /\ UNCHANGED <<pollVars, keyVars>>
    \/ \E r \in CallIds, i \in 1..3 : OverviewFetchReject(r, i)
                                         /\ UNCHANGED <<pollVars, keyVars>>
    \/ ClearAllCache /\ UNCHANGED notCache
    \/ ClearPerformanceImpactCache /\ UNCHANGED notCache

SpecOverview == Init /\ [][NextOverview]_vars

\* the domain queries called with every argument
NextQuery ==
    \/ \E impactLevel \in Properties(ImpactLevels), additionalParams \in AdditionalParams :
          /\ Ask(fetchBugsByPerformanceImpact(impactLevel, additionalParams))
          /\ UNCHANGED <<cacheVars, pollVars, dashVars, keyVars>>
    \/ \E additionalParams \in AdditionalParams :
          /\ Ask(fetchAllPerformanceImpactBugs(additionalParams))
          /\ UNCHANGED <<cacheVars, pollVars, dashVars, keyVars>>
    \/ \E bugIds \in IdArrays :
          /\ Ask(fetchBugsByIds(bugIds))
          /\ UNCHANGED <<cacheVars, pollVars, dashVars, keyVars>>

SpecQuery == Init /\ [][NextQuery]_vars

\* the handlers that change the tracked ids and their tags
NextPriority ==
    \/ \E parsed \in ParsedInputs : AddPriorityBugs(parsed)
    \/ \E id \in PriorityIds : RemovePriorityBugId(id)
    \/ \E bugId \in PriorityIds, tag \in TagInputs : handleAddBugTag(bugId, tag)
    \/ \E bugId \in PriorityIds, tag \in {"perf", "Perf High", "Perf Med", "Perf Low"} :
          handleRemoveBugTag(bugId, tag)
    \/ \E bugId \in PriorityIds : handleAddToPriority(bugId)

SpecPriority == InitStored /\ [][NextPriority]_vars

\* generateCacheKey called with every prefix and params object
NextKey ==
    \/ \E prefix \in Prefixes, params \in ParamObjects :
          GenerateCacheKey(prefix, params) /\ UNCHANGED notKey

SpecKey == Init /\ [][NextKey]_vars

-----------------------------------------------------------------------------
(* Claims about cachedFetch, under SpecFetch *)

\* the entry the last cachedFetch found for its key had not expired when it looked
FoundValid == last.pre # <<>> /\ now <= last.pre[1].expiry

\* C1: a cachedFetch called while the cache holds a non-expired entry for its key
\* resolves with the cached value and does not invoke the producer.
C1_ValidEntryIsServed ==
    (last.op \in {"hit", "miss"} /\ FoundValid) =>
        /\ last.op = "hit"
        /\ last.ret = last.pre[1].data
        /\ ~Awaiting(last.id)

\* the same for entries whose value is not null
C1_NonNullEntryIsServed ==
    (FoundValid /\ last.pre[1].data # null) => C1_ValidEntryIsServed

\* C2 as stated: when the producer of a cachedFetch fails, the caller gets the
\* failure and the entry of the key is exactly what it was before the call
\* (read for a call that no other operation interleaves with).
C2_FailureLeavesCacheAsBefore ==
    [][\A id \in CallIds :
        (ProducerReject(id) /\ last.op = "miss" /\ last.id = id) =>
            /\ last'.op = "rejected"
            /\ EntryOf(cache', last.key) = last.pre]_cacheVars

\* C2 amended: when the producer fails, the caller gets the failure and the
\* failure writes nothing; the call changes the cache at most by its lookup
\* evicting an entry of the key that had already expired, so no entry is created
\* or changed and a cachedFetch right after invokes its producer again.
C2_FailureWritesNothing ==
    [][\A id \in CallIds :
        ProducerReject(id) =>
            /\ last'.op = "rejected" /\ last'.id = id
            /\ cache' = cache
            /\ (last.op = "miss" /\ last.id = id) =>
                  /\ EntryOf(cache', last.key) =
                        (IF last.pre # <<>> /\ now > last.pre[1].expiry THEN <<>> ELSE last.pre)
                  /\ ~isHit(getCached(cache', last.key, now').ret)]_cacheVars

\* C2 witness: a producer has just failed, and the lookup of its call had evicted
\* an expired entry
C2_Witness ==
    /\ last.op = "rejected"
    /\ ~MapHas(cache, last.key)
    /\ ticks > 0

\* C3: on a miss the producer's result is stored under the key with
\* expiry = time of storing + ttl (CACHE_TTL when the ttl is omitted), the call
\* resolves with that result, and a get right after returns it.
C3_MissStoresAndReturns ==
    [][\A id \in CallIds, data \in Values :
        ProducerResolve(id, data) =>
            LET key == calls[id].key
                ttl == IF calls[id].ttlArg = <<>> THEN 300000 ELSE calls[id].ttlArg[1]
            IN  /\ calls[id].invoked = 1
                /\ MapHas(cache', key)
                /\ cache'[key].data = data
                /\ cache'[key].expiry = now + ttl
                /\ last'.op = "resolved" /\ last'.ret = data
                /\ getCached(cache', key, now').ret = data]_cacheVars

\* C3 witness: a miss has just been filled with a non-null result under an
\* explicit ttl, over an older entry that held something else
C3_Witness ==
    /\ last.op = "resolved"
    /\ last.ret = "B"
    /\ last.pre # <<>> /\ last.pre[1].data = "A"
    /\ cache[last.key].expiry = cache[last.key].cachedAt + 1

\* C4: the producer is invoked at most once per miss, and of two concurrent
\* calls on one key neither invokes the producer while the key's entry is valid.
C4_OncePerMissNoneWhileValid ==
    /\ \A id \in CallIds : Awaiting(id) => calls[id].invoked <= 1
    /\ \A a, b \in CallIds :
          (a # b /\ Awaiting(a) /\ Awaiting(b) /\ calls[a].key = calls[b].key
             /\ last.op = "miss" /\ last.id = b)
          => ~FoundValid

\* C18: the refresh flow.  After set(k, A) and invalidate(k), a cachedFetch(k)
\* is a miss that invokes its producer once (A is not returned); when the
\* producer then returns B the call resolves to B and the cache holds B under k.
C18_RefreshFlow ==
    [][/\ (last.op = "invalidate" /\ last.pre # <<>>
            /\ last'.op \in {"hit", "miss"} /\ last'.key = last.key) =>
              /\ last'.op = "miss"
              /\ calls'[last'.id].pc = "await" /\ calls'[last'.id].invoked = 1
       /\ \A id \in CallIds, data \in Values :
            (last.op = "miss" /\ last.id = id /\ ProducerResolve(id, data)) =>
              /\ last'.op = "resolved" /\ last'.ret = data
              /\ cache'[last.key].data = data
              /\ getCached(cache', last.key, now').ret = data]_cacheVars

\* C18 witness: a miss that found no entry has just been filled with "B"
C18_Witness ==
    /\ last.op = "resolved" /\ last.ret = "B"
    /\ last.pre = <<>>
    /\ cache[last.key].data = "B"

\* no cachedFetch comes right after the invalidation of an entry that held "A"
\* (refuted: the first half of the refresh flow does happen)
C18_NoFetchAfterInvalidate ==
    [][~(last.op = "invalidate" /\ last.pre # <<>> /\ last.pre[1].data = "A"
         /\ last'.op = "miss" /\ last'.key = last.key)]_cacheVars

-----------------------------------------------------------------------------
(* Claims about the cache API, under SpecStore *)

\* how long after a set a get may come, in milliseconds
Elapsed == {0, 1, 2, CACHE_TTL - 1, CACHE_TTL, CACHE_TTL + 1, CACHE_TTL + 2}

\* the ttl a set is given, 5 minutes when it is given none
TtlOf(ttlArg) == IF ttlArg = <<>> THEN 300000 ELSE ttlArg[1]

\* C13: set(key, v, ttl) followed at once by get(key) returns v; a get that
\* comes when more than ttl has elapsed since the set returns absent, and a
\* stats() after that get does not list key.
C13_SetThenGet ==
    last.op = "set" =>
        /\ getCached(cache, last.key, now).ret = last.ret
        /\ \A e \in Elapsed :
              (last.at + e >= now /\ e > TtlOf(last.ttlArg)) =>
                  LET late == getCached(cache, last.key, last.at + e) IN
                  /\ late.ret = null
                  /\ last.key \notin getCacheStats(late.cache).keys

\* C13 witness: a get has just come after the ttl of a stored "A" had elapsed,
\* and the key is gone
C13_Witness ==
    /\ last.op = "get"
    /\ last.pre # <<>> /\ last.pre[1].data = "A" /\ now > last.pre[1].expiry
    /\ last.ret = null
    /\ last.key \notin getCacheStats(cache).keys

\* the entries of the keys other than key are the same in c and d
SameElsewhere(c, d, key) ==
    \A other \in Keys \ {key} : EntryOf(c, other) = EntryOf(d, other)

\* C14: get(key) returns the stored value exactly when an entry exists and
\* now <= expiry, and then leaves the store as it is (also at now = expiry); an
\* entry with now > expiry is removed and absent is returned, nothing else
\* changes; a get of a key with no entry returns absent and changes nothing.
C14_GetSemantics ==
    /\ \A key \in Keys :
          LET got == getCached(cache, key, now) IN
          IF MapHas(cache, key) /\ now <= cache[key].expiry
             THEN got.ret = cache[key].data /\ got.cache = cache
          ELSE IF MapHas(cache, key)
             THEN /\ got.ret = null
                  /\ ~MapHas(got.cache, key)
                  /\ SameElsewhere(got.cache, cache, key)
          ELSE got.ret = null /\ got.cache = cache
    /\ last.op = "get" =>
          IF last.pre # <<>> /\ now <= last.pre[1].expiry
             THEN last.ret = last.pre[1].data /\ EntryOf(cache, last.key) = last.pre
          ELSE last.ret = null /\ EntryOf(cache, last.key) = <<>>

\* C14 witness: a get at now = expiry has just returned the stored "A" and
\* left the entry in place
C14_Witness ==
    /\ last.op = "get"
    /\ last.pre # <<>> /\ now = last.pre[1].expiry
    /\ last.ret = "A"
    /\ MapHas(cache, last.key)

\* C15: every entry of the cache has expiry = cachedAt + ttl, for the ttl given
\* to the set that created it (5 minutes when none was given).
C15_ExpiryIsStoredAtPlusTtl ==
    /\ \A key \in DOMAIN cache :
          \E ttlArg \in TtlArgs : cache[key].expiry = cache[key].cachedAt + TtlOf(ttlArg)
    /\ last.op = "set" =>
          cache[last.key].expiry = cache[last.key].cachedAt + TtlOf(last.ttlArg)

\* the same with the clock reading at the call for the time of storing
C15_ExpiryIsCallTimePlusTtl ==
    last.op = "set" =>
        /\ cache[last.key].expiry = last.at + TtlOf(last.ttlArg)
        /\ cache[last.key].cachedAt - last.at \in {0, 1}

\* C16: a set on a key that has an entry, valid or expired, replaces it: a get
\* right after returns the new value, the expiry is the time of this set + ttl
\* whatever the old expiry was, and the entries of other keys are unchanged.
C16_SetOverwrites ==
    /\ \A key \in Keys, data \in Values, ttlArg \in TtlArgs, t2 \in SecondReading :
          LET after == setCache(cache, key, data, defaultTtl(ttlArg), now, t2) IN
          /\ after[key].data = data
          /\ after[key].expiry = now + TtlOf(ttlArg)
          /\ getCached(after, key, t2).ret = data
          /\ SameElsewhere(after, cache, key)
    /\ last.op = "set" =>
          /\ cache[last.key].data = last.ret
          /\ cache[last.key].expiry = last.at + TtlOf(last.ttlArg)
          /\ getCached(cache, last.key, now).ret = last.ret

\* C16 witness: "B" with a ttl of 1 ms has just replaced an "A" that was to
\* live longer, while the other key holds an entry
C16_Witness ==
    /\ last.op = "set" /\ last.ret = "B"
    /\ last.pre # <<>> /\ last.pre[1].data = "A"
    /\ last.pre[1].expiry > cache[last.key].expiry
    /\ \E other \in Keys \ {last.key} : MapHas(cache, other)

\* C17: invalidate(key) removes the entry of key if there is one and does
\* nothing if there is none; the entries of other keys are unchanged and a get
\* of key right after returns absent.
C17_InvalidateRemoves ==
    /\ \A key \in Keys :
          LET after == clearCache(cache, key) IN
          /\ ~MapHas(after, key)
          /\ SameElsewhere(after, cache, key)
          /\ ~MapHas(cache, key) => after = cache
          /\ getCached(after, key, now).ret = null
    /\ last.op = "invalidate" =>
          /\ ~MapHas(cache, last.key)
          /\ getCached(cache, last.key, now).ret = null

\* C17 witness: an entry has just been invalidated while the other key keeps its own
C17_Witness ==
    /\ last.op = "invalidate"
    /\ last.pre # <<>>
    /\ \E other \in Keys \ {last.key} : MapHas(cache, other)

-----------------------------------------------------------------------------
(* Claims about the dashboard's refreshes, under SpecRefresh *)

\* C5: after a refresh of a query has ended, a default (cached) call for the
\* same query is never served an entry that was in the cache before the refresh.
C5_RefreshInvalidates ==
    last.op = "hit" => last.key \notin stale

\* the same for the perf-impact queries alone
C5_PerfImpactRefreshInvalidates ==
    \A level \in Levels : perfImpactKey(level) \notin stale

-----------------------------------------------------------------------------
(* Claims about the domain queries and the dashboard, under SpecDash *)

\* C21: a domain query called with useCache = false goes to the backend
\* whatever the cache holds and leaves the cache as it is: nothing is evicted
\* when it starts and its result is not stored when it settles.  (The refresh
\* of the perf-impact tab first invalidates the key itself; the query it then
\* makes changes nothing more.)
C21_UseCacheFalseBypasses ==
    [][\A id \in CallIds :
        /\ (tasks[id] # NoTask /\ ~tasks[id].useCache /\ tasks'[id] = NoTask) =>
              cache' = cache
        /\ (tasks[id] = NoTask /\ tasks'[id] # NoTask /\ ~tasks'[id].useCache) =>
              cache' = (IF tasks'[id].handler = "handleRefreshPerfImpact"
                           THEN clearCache(cache, tasks'[id].query)
                        ELSE cache)]_<<cache, tasks>>

\* C21 witness: an uncached query is in flight while the cache holds an entry
\* for its key
C21_Witness ==
    \E id \in CallIds :
        /\ tasks[id] # NoTask /\ ~tasks[id].useCache
        /\ ValidAt(cache, tasks[id].query, now)

\* the bugs fetch i of run r has resolved with once the step is over: kept by
\* the run if it resolved before, otherwise what the cache holds for its key
ResolvedWith(r, i) ==
    IF overview[r].result = "pending" /\ overview[r].fetch[i].st = "resolved"
        THEN <<overview[r].fetch[i].bugs>>
    ELSE IF ValidAt(cache', perfImpactKey(ImpactLevels[i]), now')
        THEN <<cache'[perfImpactKey(ImpactLevels[i])].data>>
    ELSE <<>>

\* C22: the overview counts change only in a step in which the aggregate of a
\* run is fulfilled, all three of its fetches having resolved, and then they
\* are the lengths of the three results; in a step in which the aggregate
\* fails because one fetch failed the counts keep the values they had.
C22_AllOrNothing ==
    [][/\ overviewPerfCounts' # overviewPerfCounts =>
            \E r \in CallIds :
                /\ overview'[r].result = "fulfilled"
                /\ \A i \in 1..3 : ResolvedWith(r, i) # <<>>
                /\ overviewPerfCounts' =
                      [high |-> length(ResolvedWith(r, 1)[1]),
                       medium |-> length(ResolvedWith(r, 2)[1]),
                       low |-> length(ResolvedWith(r, 3)[1])]
       /\ \A r \in CallIds :
            (overview[r].result = "pending" /\ overview'[r].result = "rejected") =>
                overviewPerfCounts' = overviewPerfCounts]_vars

\* C22 witness: a run has failed after one of its fetches had succeeded and
\* stored its bugs, and the counts are still the initial ones
C22_Witness ==
    \E r \in CallIds :
        /\ overview[r].result = "rejected"
        /\ \E i \in 1..3 : ValidAt(cache, perfImpactKey(ImpactLevels[i]), now)
        /\ overviewPerfCounts = NoCounts

\* C23: right after clearPerformanceImpactCache() with no impact level the
\* cache holds no entry under a key that fetchBugsByPerformanceImpact stores
\* the bugs of a level under
C23_ClearsEveryLevel ==
    last.op = "clearPerformanceImpactCache" =>
        \A i \in 1..3 : ~MapHas(cache, perfImpactKey(ImpactLevels[i]))

-----------------------------------------------------------------------------
(* Claims about cachedFetch interleaved with invalidations, under SpecRace *)

\* C25: a cachedFetch that hits never returns an entry that was stored by a
\* producer started before the latest invalidate of the key
C25_NoStaleWriteServed ==
    last.op = "hit" => last.key \notin tainted

\* C26: a cachedFetch never resolves from the cache with null, and a
\* cachedFetch that finds a non-expired entry holding null (the result of an
\* earlier producer) is a miss that invokes its own producer once.
C26_NullIsNeverServed ==
    /\ last.op = "hit" => last.ret # null
    /\ (last.op \in {"hit", "miss"} /\ FoundValid /\ last.pre[1].data = null) =>
          /\ last.op = "miss"
          /\ Awaiting(last.id) /\ calls[last.id].invoked = 1

\* C26 witness: a cachedFetch has just found the null a producer resolved with,
\* not expired
C26_Witness ==
    /\ last.op = "miss"
    /\ FoundValid /\ last.pre[1].data = null

-----------------------------------------------------------------------------
(* Claims about the keys of the domain queries, under SpecQuery *)

\* every call of a domain query
QueryCalls ==
    {fetchBugsByPerformanceImpact(l, p) : l \in Properties(ImpactLevels), p \in AdditionalParams}
    \cup {fetchAllPerformanceImpactBugs(p) : p \in AdditionalParams}
    \cup {fetchBugsByIds(ids) : ids \in IdArrays}

\* C24: no call of a domain query that asks the backend something else than
\* the latest call did derives the cache key the latest call derived
C24_KeysSeparateQueries ==
    \A q \in QueryCalls :
        (asked # NoQuery /\ q.request # asked.request) => q.key # asked.key

\* the calls that give no additionalParams do derive separate keys
C24_KeysSeparateWithoutAdditionalParams ==
    \A q \in QueryCalls :
        \/ asked = NoQuery
        \/ asked \notin {fetchBugsByPerformanceImpact(l, <<>>) : l \in Properties(ImpactLevels)}
                           \cup {fetchAllPerformanceImpactBugs(<<>>)}
                           \cup {fetchBugsByIds(ids) : ids \in IdArrays}
        \/ q \notin {fetchBugsByPerformanceImpact(l, <<>>) : l \in Properties(ImpactLevels)}
                       \cup {fetchAllPerformanceImpactBugs(<<>>)}
                       \cup {fetchBugsByIds(ids) : ids \in IdArrays}
        \/ q.request = asked.request
        \/ q.key # asked.key

-----------------------------------------------------------------------------
(* Claims about the perf-impact tab, under SpecDash *)

\* the perf-impact loads and refreshes in flight
PerfInFlight(ts) == {id \in CallIds : ts[id] # NoTask /\ ts[id].handler \in PerfHandlers}

\* C28: when a perf-impact fetch succeeds and leaves no other one in flight,
\* perfImpactBugs holds the bugs of the level that is selected
C28_ShownMatchesLevel ==
    [][\A id \in CallIds :
        (id \in PerfInFlight(tasks) /\ TaskResolve(id) /\ PerfInFlight(tasks') = {}) =>
            perfImpactBugs' = Bugs(perfImpactKey(perfImpactLevel'), bugzilla')]_vars

\* C29: perfImpactLoading is true while a perf-impact fetch is in flight
C29_LoadingWhileInFlight ==
    PerfInFlight(tasks) # {} => perfImpactLoading

-----------------------------------------------------------------------------
(* Claims about the tracked ids and their tags, under SpecPriority *)

\* C30: priorityBugIds never holds an id twice and no tag list of
\* priorityBugTags holds a tag twice
C30_NoDuplicates ==
    /\ DuplicateFree(priorityBugIds)
    /\ \A id \in DOMAIN priorityBugTags : DuplicateFree(priorityBugTags[id])

\* C30 witness: both ids are tracked and one bug has the tag typed in and the
\* tag of a level
C30_Witness ==
    /\ Len(priorityBugIds) = 2
    /\ \E id \in DOMAIN priorityBugTags : Len(priorityBugTags[id]) >= 2

-----------------------------------------------------------------------------
(* Claims about the poll client, under SpecPoll *)

\* the backend's latest answer has been dealt with
Settled == pollPc # "fetching" /\ history # <<>>

LastResponse == history[Len(history)]

\* a successful response carrying a job reference and no result
IsJob(r) ==
    /\ r.net = "ok" /\ r.status = 200 /\ r.body.json = "object"
    /\ r.body.query_result = <<>> /\ r.body.job # <<>>

\* a successful response {query_result: {data: {rows: [...]}}}
IsResultWithRows(r) ==
    /\ r.net = "ok" /\ r.status = 200 /\ r.body.json = "object"
    /\ r.body.query_result # <<>>
    /\ r.body.query_result[1].data # <<>>
    /\ r.body.query_result[1].data[1].rows # <<>>

AllJobs(n) == \A i \in 1..n : IsJob(history[i])

\* C6: a job for the first 11 submissions and a query_result on the 12th: the
\* client is still polling after the 11th job, and returns the result's rows
\* after exactly 12 submissions and exactly 11 delays.
C6_ResultOnTwelfth ==
    /\ (Settled /\ Len(history) = 11 /\ AllJobs(11)) =>
           (pollPc \in {"sleeping", "loop"} /\ outcome = NoOutcome)
    /\ (Settled /\ Len(history) = 12 /\ AllJobs(11) /\ IsResultWithRows(history[12])) =>
           /\ pollPc = "done"
           /\ outcome = Outcome("rows", 0, history[12].body.query_result[1].data[1].rows[1])
           /\ Len(sent) = 12
           /\ delays = 11

\* C6 witness: the rows r1, r2 came back on the 12th submission
C6_Witness ==
    /\ pollPc = "done"
    /\ Len(history) = 12
    /\ outcome = Outcome("rows", 0, <<"r1", "r2">>)

\* C7: a backend that always answers with a job: the client keeps polling up to
\* the 12th submission, then fails with the time-out error, after exactly 12
\* submissions and 11 delays (none after the last submission); never a 13th.
C7_TimeoutAfterTwelve ==
    /\ Len(sent) <= 12
    /\ \A n \in 1..11 :
          (Settled /\ Len(history) = n /\ AllJobs(n)) =>
              (pollPc \in {"sleeping", "loop"} /\ outcome = NoOutcome /\ delays = n)
    /\ (Settled /\ Len(history) = 12 /\ AllJobs(12)) =>
           /\ pollPc = "done"
           /\ outcome = Outcome("timed out", 0, <<>>)
           /\ Len(sent) = 12
           /\ delays = 11

\* C7 witness: twelve jobs have been answered and the client has given up
C7_Witness ==
    /\ pollPc = "done"
    /\ Len(history) = 12 /\ AllJobs(12)
    /\ outcome.kind = "timed out"

\* C8: the first submission carries the configured max_age and every
\* re-submission after a job response carries max_age = 0.
C8_ResubmitWithMaxAgeZero ==
    \A i \in 1..Len(sent) : sent[i] = (IF i = 1 THEN 86400 ELSE 0)

\* C9: a non-success HTTP status on any attempt ends the invocation at once
\* with an error carrying that status; no delay and no submission follows it.
C9_TransportFailureIsTerminal ==
    (Settled /\ LastResponse.net = "ok"
        /\ (LastResponse.status < 200 \/ LastResponse.status > 299)) =>
            /\ pollPc = "done"
            /\ outcome = Outcome("STMO API error", LastResponse.status, <<>>)
            /\ Len(sent) = Len(history)
            /\ delays = Len(history) - 1

\* C9 witness: a 404 on a later attempt ended the invocation
C9_Witness ==
    /\ pollPc = "done"
    /\ Len(history) > 1
    /\ LastResponse.net = "ok" /\ LastResponse.status = 404
    /\ outcome.kind = "STMO API error"

\* C10: a successful response that contains neither a query_result nor a job
\* ends the invocation at once with the 'unexpected response format' failure,
\* on any attempt, with no retry.
C10_MalformedIsFormatError ==
    (Settled /\ LastResponse.net = "ok" /\ LastResponse.status \in 200..299
        /\ LastResponse.body.query_result = <<>> /\ LastResponse.body.job = <<>>) =>
            /\ pollPc = "done"
            /\ outcome = Outcome("unexpected format", 0, <<>>)
            /\ Len(sent) = Len(history)
            /\ delays = Len(history) - 1

\* the same for bodies that are JSON values other than null
C10_ObjectWithoutEitherIsFormatError ==
    (Settled /\ LastResponse.body.json = "object") => C10_MalformedIsFormatError

\* a successful response whose body holds a query_result, whatever is in it
IsResult(r) ==
    /\ r.net = "ok" /\ r.status \in 200..299 /\ r.body.json = "object"
    /\ r.body.query_result # <<>>

\* the row collection of a result payload, the empty sequence when it has none
RowsOrEmpty(payload) ==
    IF payload.data = <<>> THEN <<>>
    ELSE IF payload.data[1].rows = <<>> THEN <<>>
    ELSE payload.data[1].rows[1]

\* C11: a response holding a completed result payload ends the invocation in
\* success with the payload's rows, or with the empty sequence when the payload
\* has no rows (or no data part at all); it never ends in failure.
C11_ResultIsSuccess ==
    (Settled /\ IsResult(LastResponse)) =>
        /\ pollPc = "done"
        /\ outcome = Outcome("rows", 0, RowsOrEmpty(LastResponse.body.query_result[1]))

\* the same for payloads that have a data part
C11_ResultWithDataIsSuccess ==
    (Settled /\ IsResult(LastResponse) /\ LastResponse.body.query_result[1].data # <<>>)
        => C11_ResultIsSuccess

\* C12: every invocation terminates, in success or failure, after at most 12
\* submissions and at most 11 delays, whatever the backend answers, when every
\* request and every timer eventually completes.
C12_Terminates ==
    /\ [](Len(sent) <= 12 /\ delays <= 11)
    /\ (pollPc = "loop") ~> (pollPc = "done" /\ outcome # NoOutcome)

\* C12 witness: an invocation ended after 12 submissions and 11 delays
C12_Witness ==
    /\ pollPc = "done" /\ outcome # NoOutcome
    /\ Len(sent) = 12 /\ delays = 11

\* C27: an invocation that ends in failure ends with the transport error
\* carrying the status, the time-out, or the unexpected-format error; and the
\* throw after the loop is never reached.
C27_FailuresAreOfThreeKinds ==
    /\ (pollPc = "done" /\ outcome.kind # "rows") =>
          outcome.kind \in {"STMO API error", "timed out", "unexpected format"}
    /\ (pollPc = "done") => outcome.kind # "exceeded max poll attempts"

\* the part of C27 about the throw after the loop
C27_TrailingThrowIsUnreachable ==
    (pollPc = "done") => outcome.kind # "exceeded max poll attempts"

-----------------------------------------------------------------------------
(* Claims about generateCacheKey, under SpecKey *)

\* the rearrangements of a params object: the same properties inserted in
\* another order
Rearranged(params) ==
    LET n == Len(params) IN
    {[i \in 1..n |-> params[f[i]]] :
        f \in {g \in [1..n -> 1..n] : \A i, j \in 1..n : g[i] = g[j] => i = j}}

\* C19: the key does not depend on the insertion order of the params: two
\* params objects with the same name/value pairs give the same key.
C19_OrderIndependent ==
    built # NothingBuilt =>
        \A other \in Rearranged(built.params) :
            generateCacheKey(built.prefix, other) = built.key

\* C19 witness: a key has been built from three properties that were not
\* inserted in ascending order
C19_Witness ==
    /\ Len(built.params) = 3
    /\ built.params[1][1] = "limit" /\ built.params[2][1] = "all"
    /\ built.key # ""

\* 'name=value' of the names in `names` that params has, in the order of
\* `names`, with '&' between them
RECURSIVE Rendered(_, _)
Rendered(names, params) ==
    IF names = <<>> THEN ""
    ELSE LET name == Head(names)
             rest == Rendered(Tail(names), params)
             has == \E i \in 1..Len(params) : params[i][1] = name
             value == params[CHOOSE i \in 1..Len(params) : params[i][1] = name][2]
         IN IF ~has THEN rest
            ELSE IF rest = "" THEN name \o "=" \o value
            ELSE name \o "=" \o value \o "&" \o rest

\* C20: the key is the prefix, a colon, then 'name=value' for every property in
\* ascending lexicographic order of the names, joined by '&'; an empty params
\* object gives 'prefix:', and ('perf-impact', {impactLevel: 'high'}) gives
\* 'perf-impact:impactLevel=high'.
C20_KeyFormat ==
    /\ built # NothingBuilt =>
          built.key = built.prefix \o ":" \o Rendered(LexOrder, built.params)
    /\ (built # NothingBuilt /\ built.params = <<>>) => built.key = built.prefix \o ":"
    /\ (built.prefix = "perf-impact" /\ built.params = <<<<"impactLevel", "high">>>>) =>
          built.key = "perf-impact:impactLevel=high"
    /\ (built.prefix = "perf-impact"
          /\ built.params = <<<<"limit", "true">>, <<"impactLevel", "high">>>>) =>
          built.key = "perf-impact:impactLevel=high&limit=true"

\* C20 witness: the key of ('perf-impact', {impactLevel: 'high'}) has been built
C20_Witness ==
    /\ built.prefix = "perf-impact"
    /\ built.params = <<<<"impactLevel", "high">>>>
    /\ built.key = "perf-impact:impactLevel=high"

====
